---- MODULE Spec2Model ----
(***************************************************************************)
(* Model of hiveproxy's proxyFunctions: the registry of cancel functions   *)
(* (pfn.cancel, guarded by pfn.mu), CheckLive's validation and polling     *)
(* loop, and Cancel.  Every CheckLive call is one process (an element of   *)
(* Ops); Cancel calls and the environment (base contexts, the listener on  *)
(* the probed address, the tickers) are further actions.                   *)
(***************************************************************************)
EXTENDS Integers, Sequences, FiniteSets, TLC

\* Number of CheckLive calls made during a run.
NOps == 2

\* The failed dials of a call are counted up to this number.
MaxFails == 2

\* The calls of CheckLive, numbered in the order in which they are made.
Ops == 1..NOps

\* The request ids the callers use (a sample of uint64).
Ids == {1, 2}

(***************************************************************************)
(* Addresses are strings, written as sequences of one-character strings    *)
(* so that the parsing CheckLive does can be computed.                     *)
(***************************************************************************)
Addrs ==
  << <<"1","2","7",".","0",".","0",".","1",":","8","0">>,
     <<"n","o","t","-","a","n","-","i","p",":","8","0">>,
     <<"1","2","7",".","0",".","0",".","1",":","9","9","9","9","9">>,
     <<"1","2","7",".","0",".","0",".","1">>,
     <<"[",":",":","1","]",":","8","0">> >>

AddrIdx == DOMAIN Addrs

Digits == {"0","1","2","3","4","5","6","7","8","9"}

DigitVal ==
  ("0" :> 0) @@ ("1" :> 1) @@ ("2" :> 2) @@ ("3" :> 3) @@ ("4" :> 4) @@
  ("5" :> 5) @@ ("6" :> 6) @@ ("7" :> 7) @@ ("8" :> 8) @@ ("9" :> 9)

\* First position of character c in s, 0 when absent (bytealg.IndexByteString).
IndexByte(s, c) ==
  IF \E k \in 1..Len(s) : s[k] = c
    THEN CHOOSE k \in 1..Len(s) : s[k] = c /\ \A j \in 1..(k-1) : s[j] # c
    ELSE 0

\* Last position of character c in s, 0 when absent.
LastIndexByte(s, c) ==
  IF \E k \in 1..Len(s) : s[k] = c
    THEN CHOOSE k \in 1..Len(s) : s[k] = c /\ \A j \in (k+1)..Len(s) : s[j] # c
    ELSE 0

Slice(s, from, to) == SubSeq(s, from, to)

AddrErr(e) == [err |-> e, host |-> <<>>, port |-> <<>>]

\* net.SplitHostPort: the port starts after the last colon; a host that
\* holds a colon must be written in brackets.
SplitHostPort(hostport) ==
  LET i == LastIndexByte(hostport, ":")
      bracket == Len(hostport) > 0 /\ hostport[1] = "["
      end == IndexByte(hostport, "]")
      host == IF bracket THEN Slice(hostport, 2, end - 1)
                         ELSE Slice(hostport, 1, i - 1)
      j == IF bracket THEN 2 ELSE 1
      k == IF bracket THEN end + 1 ELSE 1
  IN  IF i = 0 THEN AddrErr("missing port in address")
      ELSE IF bracket /\ end = 0 THEN AddrErr("missing ']' in address")
      ELSE IF bracket /\ end = Len(hostport)
        THEN AddrErr("missing port in address")
      ELSE IF bracket /\ end + 1 # i /\ hostport[end + 1] = ":"
        THEN AddrErr("too many colons in address")
      ELSE IF bracket /\ end + 1 # i
        THEN AddrErr("missing port in address")
      ELSE IF ~bracket /\ IndexByte(host, ":") # 0
        THEN AddrErr("too many colons in address")
      ELSE IF IndexByte(Slice(hostport, j, Len(hostport)), "[") # 0
        THEN AddrErr("unexpected '[' in address")
      ELSE IF IndexByte(Slice(hostport, k, Len(hostport)), "]") # 0
        THEN AddrErr("unexpected ']' in address")
      ELSE [err |-> "", host |-> host,
            port |-> Slice(hostport, i + 1, Len(hostport))]

\* The scan of a dotted-decimal IPv4 literal: n is the position, val the
\* value of the octet being read, digLen its number of digits, pos the
\* number of octets completed.
RECURSIVE ScanIPv4(_, _, _, _, _)
ScanIPv4(s, n, val, digLen, pos) ==
  IF n > Len(s) THEN pos = 3
  ELSE IF s[n] \in Digits
    THEN IF digLen = 1 /\ val = 0 THEN FALSE
         ELSE IF val * 10 + DigitVal[s[n]] > 255 THEN FALSE
         ELSE ScanIPv4(s, n + 1, val * 10 + DigitVal[s[n]], digLen + 1, pos)
  ELSE IF s[n] = "."
    THEN IF n = 1 \/ n = Len(s) \/ s[n - 1] = "." THEN FALSE
         ELSE IF pos = 3 THEN FALSE
         ELSE ScanIPv4(s, n + 1, 0, 0, pos + 1)
  ELSE FALSE

HexDigits ==
  Digits \cup {"a","b","c","d","e","f","A","B","C","D","E","F"}

\* The number of hexadecimal digits of s from position n on.
HexLen(s, n) ==
  CHOOSE k \in 0..(Len(s) - n + 1) :
    /\ \A j \in n..(n + k - 1) : s[j] \in HexDigits
    /\ (n + k > Len(s) \/ s[n + k] \notin HexDigits)

\* The end of the scan of an IPv6 literal: the whole text was used, and the
\* "::" stands for at least one field exactly when fewer than 16 bytes were
\* read.
EndIPv6(s, n, i, ellipsis) ==
  IF n <= Len(s) THEN FALSE
  ELSE IF i < 16 THEN ellipsis
  ELSE ~ellipsis

\* The scan of an IPv6 literal from position n: groups of one to four
\* hexadecimal digits separated by colons, at most one "::", and a dotted
\* IPv4 literal allowed as the last four bytes.  i is the number of bytes
\* read, ellipsis whether a "::" was seen.
RECURSIVE ScanIPv6(_, _, _, _)
ScanIPv6(s, n, i, ellipsis) ==
  IF i >= 16 THEN EndIPv6(s, n, i, ellipsis)
  ELSE
    LET off == HexLen(s, n)
        m == n + off
    IN  IF off > 4 \/ off = 0 THEN FALSE
        ELSE IF m <= Len(s) /\ s[m] = "."
          THEN IF ~ellipsis /\ i # 12 THEN FALSE
               ELSE IF i + 4 > 16 THEN FALSE
               ELSE IF ~ScanIPv4(Slice(s, n, Len(s)), 1, 0, 0, 0) THEN FALSE
               ELSE EndIPv6(s, Len(s) + 1, i + 4, ellipsis)
        ELSE IF m > Len(s) THEN EndIPv6(s, m, i + 2, ellipsis)
        ELSE IF s[m] # ":" THEN FALSE
        ELSE IF m = Len(s) THEN FALSE
        ELSE IF s[m + 1] = ":"
          THEN IF ellipsis THEN FALSE
               ELSE IF m + 1 = Len(s) THEN EndIPv6(s, m + 2, i + 2, TRUE)
               ELSE ScanIPv6(s, m + 2, i + 2, TRUE)
        ELSE ScanIPv6(s, m + 1, i + 2, ellipsis)

\* An IPv6 literal; one with a zone ("%") is no IP for net.ParseIP.
ParseIPv6(s) ==
  LET lead == Len(s) >= 2 /\ s[1] = ":" /\ s[2] = ":"
  IN  IF IndexByte(s, "%") # 0 THEN FALSE
      ELSE IF lead /\ Len(s) = 2 THEN TRUE
      ELSE ScanIPv6(s, IF lead THEN 3 ELSE 1, 0, lead)

\* net.ParseIP(host) # nil.  The first ".", ":" or "%" of the text selects
\* the IPv4 grammar, the IPv6 grammar or the failure.
ParseIP(host) ==
  LET marks == {k \in 1..Len(host) : host[k] \in {".", ":", "%"}}
  IN  IF marks = {} THEN FALSE
      ELSE LET k == CHOOSE j \in marks : \A l \in marks : j <= l
           IN  IF host[k] = "." THEN ScanIPv4(host, 1, 0, 0, 0)
               ELSE IF host[k] = ":" THEN ParseIPv6(host)
               ELSE FALSE

\* strconv.ParseUint(s, 10, bitSize): the value, or -1 for a syntax or a
\* range error.
RECURSIVE ScanUint(_, _, _, _)
ScanUint(s, n, val, max) ==
  IF n > Len(s) THEN val
  ELSE IF s[n] \notin Digits THEN -1
  ELSE IF val * 10 + DigitVal[s[n]] > max THEN -1
  ELSE ScanUint(s, n + 1, val * 10 + DigitVal[s[n]], max)

\* ParseUint with a range check wider than the bit size asked for.
ParseUint_WideRange(s, bitSize) ==
  IF Len(s) = 0 THEN -1 ELSE ScanUint(s, 1, 0, 2^(bitSize + 4) - 1)

ParseUint(s, bitSize) ==
  IF Len(s) = 0 THEN -1 ELSE ScanUint(s, 1, 0, 2^bitSize - 1)

\* The error of CheckLive's validation of addr, "" when it is well formed:
\* the error of SplitHostPort, "invalid IP" or "invalid port".  (The set
\* binds the result of SplitHostPort, so that it is computed once.)
ValidateAddr(addr) ==
  CHOOSE e \in { IF sp.err # "" THEN sp.err
                 ELSE IF ~ParseIP(sp.host) THEN "invalid IP"
                 ELSE IF ParseUint(sp.port, 16) = -1 THEN "invalid port"
                 ELSE "" : sp \in {SplitHostPort(addr)} } : TRUE

(***************************************************************************)
(* State.                                                                  *)
(***************************************************************************)
VARIABLES
  cancel,     \* pfn.cancel: the map from id to cancel function (named by the
              \* call that installed it)
  cancelNil,  \* pfn.cancel == nil: the map has not been made yet
  mu,         \* pfn.mu: who holds the lock
  pc,         \* the position of each CheckLive call
  id,         \* the id argument of each call (0 before the call)
  addr,       \* the addr argument of each call, an index of Addrs (0 before)
  ctxDone,    \* whether the call's derived context is done
  tick,       \* whether a tick waits in the call's ticker channel
  result,     \* the error the call returns ("none" while it has not chosen)
  conn,       \* the connection of the call's successful dial
  listening,  \* whether a listener accepts connections on the probed address
  cancelCalled, \* whether Cancel(id) was called for the call's id while the
              \* call was in its polling loop (a record of the callers' acts)
  baseDone,   \* whether the base context passed to the call is done
  nfail       \* the number of dials of the call that failed for want of a
              \* listener, counted up to MaxFails (a record, not program state)

vars == <<cancel, cancelNil, mu, pc, id, addr, ctxDone, tick, result, conn,
          listening, cancelCalled, baseDone, nfail>>

Nil == 0
Free == <<"free", 0>>
OpHolder(o) == <<"op", o>>

EmptyMap == [k \in {} |-> Nil]

\* pfn.cancel[i]: nil for a missing key, also on a nil map.
Lookup(m, i) == IF i \in DOMAIN m THEN m[i] ELSE Nil

\* pfn.cancel[i] = h
Store(m, i, h) == [k \in DOMAIN m \cup {i} |-> IF k = i THEN h ELSE m[k]]

\* A delete that drops the whole map.
Delete_All(m, i) == EmptyMap

\* delete(pfn.cancel, i)
Delete(m, i) == [k \in DOMAIN m \ {i} |-> m[k]]

\* The call is in its polling loop: it waits in select or is inside a dial
\* attempt.
Polling(o) == pc[o] \in {"select", "dialing"}

\* The call has stored its cancel function and has not returned.
InFlight(o) ==
  pc[o] \in {"validate", "select", "dialing", "connected", "defer", "cf"}

Returned(o) == pc[o] = "returned"

Init ==
  /\ cancel = EmptyMap
  /\ cancelNil = TRUE
  /\ mu = Free
  /\ pc = [o \in Ops |-> "idle"]
  /\ id = [o \in Ops |-> 0]
  /\ addr = [o \in Ops |-> 0]
  /\ ctxDone = [o \in Ops |-> FALSE]
  /\ tick = [o \in Ops |-> FALSE]
  /\ result = [o \in Ops |-> "none"]
  /\ conn = [o \in Ops |-> "none"]
  /\ listening = FALSE
  /\ cancelCalled = [o \in Ops |-> FALSE]
  /\ baseDone = [o \in Ops |-> FALSE]
  /\ nfail = [o \in Ops |-> 0]

(***************************************************************************)
(* CheckLive and makeContext.                                              *)
(***************************************************************************)

\* CheckLive(ctx, i, Addrs[a]) is called (the o-th call of the run) with a
\* ctx that is done already (d) or not, and makeContext derives its context
\* from ctx, done from the start when ctx is; the call then waits for pfn.mu.
Call(o, i, a, d) ==
  /\ pc[o] = "idle"
  /\ \A p \in Ops : p < o => pc[p] # "idle"
  /\ pc' = [pc EXCEPT ![o] = "lock"]
  /\ id' = [id EXCEPT ![o] = i]
  /\ addr' = [addr EXCEPT ![o] = a]
  /\ baseDone' = [baseDone EXCEPT ![o] = d]
  /\ ctxDone' = [ctxDone EXCEPT ![o] = d]
  /\ UNCHANGED <<cancel, cancelNil, mu, tick, result, conn,
                 listening, cancelCalled, nfail>>

\* makeContext: pfn.mu.Lock()
MakeContextLock(o) ==
  /\ pc[o] = "lock"
  /\ mu = Free
  /\ mu' = OpHolder(o)
  /\ pc' = [pc EXCEPT ![o] = "register"]
  /\ UNCHANGED <<cancel, cancelNil, id, addr, ctxDone, tick, result, conn,
                 listening, cancelCalled, baseDone, nfail>>

\* makeContext without the duplicate check: the new cancel function
\* replaces the one in the map.
MakeContextBody_Overwrite(o) ==
  /\ pc[o] = "register"
  /\ mu = OpHolder(o)
  /\ pc' = [pc EXCEPT ![o] = "validate"]
  /\ cancel' = Store(cancel, id[o], o)
  /\ cancelNil' = FALSE
  /\ mu' = Free
  /\ UNCHANGED <<id, addr, ctxDone, tick, result, conn, listening,
                 cancelCalled, baseDone, nfail>>

\* makeContext with an Unlock that is not deferred: the panic leaves the
\* lock held.
MakeContextBody_PanicHoldsLock(o) ==
  /\ pc[o] = "register"
  /\ mu = OpHolder(o)
  /\ IF Lookup(cancel, id[o]) # Nil
       THEN /\ pc' = [pc EXCEPT ![o] = "panicked"]
            /\ result' = [result EXCEPT ![o] = "duplicate id"]
            /\ UNCHANGED <<cancel, mu>>
       ELSE /\ pc' = [pc EXCEPT ![o] = "validate"]
            /\ cancel' = Store(cancel, id[o], o)
            /\ mu' = Free
            /\ UNCHANGED result
  /\ cancelNil' = FALSE
  /\ UNCHANGED <<id, addr, ctxDone, tick, conn, listening, cancelCalled, baseDone, nfail>>

\* makeContext with an Unlock on the panic path only: a call that stores
\* its cancel function keeps the lock while it validates and polls.
MakeContextBody_KeepsLock(o) ==
  /\ pc[o] = "register"
  /\ mu = OpHolder(o)
  /\ IF Lookup(cancel, id[o]) # Nil
       THEN /\ pc' = [pc EXCEPT ![o] = "panicked"]
            /\ result' = [result EXCEPT ![o] = "duplicate id"]
            /\ mu' = Free
            /\ UNCHANGED cancel
       ELSE /\ pc' = [pc EXCEPT ![o] = "validate"]
            /\ cancel' = Store(cancel, id[o], o)
            /\ UNCHANGED <<result, mu>>
  /\ cancelNil' = FALSE
  /\ UNCHANGED <<id, addr, ctxDone, tick, conn, listening, cancelCalled,
                 baseDone, nfail>>

\* makeContext under the lock: make the map, panic on a duplicate id or
\* store the cancel function; the deferred Unlock runs on both paths.
MakeContextBody(o) ==
  /\ pc[o] = "register"
  /\ mu = OpHolder(o)
  /\ IF Lookup(cancel, id[o]) # Nil
       THEN /\ pc' = [pc EXCEPT ![o] = "panicked"]
            /\ result' = [result EXCEPT ![o] = "duplicate id"]
            /\ UNCHANGED cancel
       ELSE /\ pc' = [pc EXCEPT ![o] = "validate"]
            /\ cancel' = Store(cancel, id[o], o)
            /\ UNCHANGED result
  /\ cancelNil' = FALSE
  /\ mu' = Free
  /\ UNCHANGED <<id, addr, ctxDone, tick, conn, listening, cancelCalled, baseDone, nfail>>

\* A CheckLive whose cancel() is not deferred: a validation error returns
\* without the done callback.
Validate_SkipsDone(o) ==
  /\ pc[o] = "validate"
  /\ LET err == ValidateAddr(Addrs[addr[o]])
     IN  IF err # ""
           THEN /\ result' = [result EXCEPT ![o] = err]
                /\ pc' = [pc EXCEPT ![o] = "returned"]
           ELSE /\ pc' = [pc EXCEPT ![o] = "select"]
                /\ UNCHANGED result
  /\ tick' = [tick EXCEPT ![o] = FALSE]
  /\ UNCHANGED <<cancel, cancelNil, mu, id, addr, ctxDone, conn,
                 listening, cancelCalled, baseDone, nfail>>

\* CheckLive's validation of addr; a well-formed address starts the ticker.
Validate(o) ==
  /\ pc[o] = "validate"
  /\ LET err == ValidateAddr(Addrs[addr[o]])
     IN  IF err # ""
           THEN /\ result' = [result EXCEPT ![o] = err]
                /\ pc' = [pc EXCEPT ![o] = "defer"]
           ELSE /\ pc' = [pc EXCEPT ![o] = "select"]
                /\ UNCHANGED result
  /\ tick' = [tick EXCEPT ![o] = FALSE]
  /\ UNCHANGED <<cancel, cancelNil, mu, id, addr, ctxDone, conn,
                 listening, cancelCalled, baseDone, nfail>>

\* A select that returns "canceled" without ctx.Done() being closed.
SelectDone_Unguarded(o) ==
  /\ pc[o] = "select"
  /\ result' = [result EXCEPT ![o] = "canceled"]
  /\ tick' = [tick EXCEPT ![o] = FALSE]
  /\ pc' = [pc EXCEPT ![o] = "defer"]
  /\ UNCHANGED <<cancel, cancelNil, mu, id, addr, ctxDone, conn, listening,
                 cancelCalled, baseDone, nfail>>

\* select: case <-ctx.Done(): return errors.New("canceled"); the deferred
\* ticker.Stop() runs.
SelectDone(o) ==
  /\ pc[o] = "select"
  /\ ctxDone[o]
  /\ result' = [result EXCEPT ![o] = "canceled"]
  /\ tick' = [tick EXCEPT ![o] = FALSE]
  /\ pc' = [pc EXCEPT ![o] = "defer"]
  /\ UNCHANGED <<cancel, cancelNil, mu, id, addr, ctxDone, conn,
                 listening, cancelCalled, baseDone, nfail>>

\* select: case <-ticker.C, up to the call of dialer.DialContext
SelectTick(o) ==
  /\ pc[o] = "select"
  /\ tick[o]
  /\ tick' = [tick EXCEPT ![o] = FALSE]
  /\ pc' = [pc EXCEPT ![o] = "dialing"]
  /\ UNCHANGED <<cancel, cancelNil, mu, id, addr, ctxDone, result, conn,
                 listening, cancelCalled, baseDone, nfail>>

\* A loop that keeps polling after a dial has connected.
DialConnect_KeepsPolling(o) ==
  /\ pc[o] = "dialing"
  /\ ~ctxDone[o]
  /\ listening
  /\ conn' = [conn EXCEPT ![o] = "open"]
  /\ pc' = [pc EXCEPT ![o] = "select"]
  /\ UNCHANGED <<cancel, cancelNil, mu, id, addr, ctxDone, tick, result,
                 listening, cancelCalled, baseDone, nfail>>

\* DialContext returns a connection.
DialConnect(o) ==
  /\ pc[o] = "dialing"
  /\ ~ctxDone[o]
  /\ listening
  /\ conn' = [conn EXCEPT ![o] = "open"]
  /\ pc' = [pc EXCEPT ![o] = "connected"]
  /\ UNCHANGED <<cancel, cancelNil, mu, id, addr, ctxDone, tick, result,
                 listening, cancelCalled, baseDone, nfail>>

\* A loop with a retry limit: the dial that fails as the MaxFails-th gives
\* up and returns its error.
DialFail_GivesUp(o) ==
  /\ pc[o] = "dialing"
  /\ ~ctxDone[o]
  /\ ~listening
  /\ IF nfail[o] + 1 >= MaxFails
       THEN /\ pc' = [pc EXCEPT ![o] = "defer"]
            /\ result' = [result EXCEPT ![o] = "connection refused"]
       ELSE /\ pc' = [pc EXCEPT ![o] = "select"]
            /\ UNCHANGED result
  /\ nfail' = [nfail EXCEPT ![o] = IF @ < MaxFails THEN @ + 1 ELSE @]
  /\ UNCHANGED <<cancel, cancelNil, mu, id, addr, ctxDone, tick, conn,
                 listening, cancelCalled, baseDone>>

\* DialContext returns an error: nothing accepts the connection.
DialFail(o) ==
  /\ pc[o] = "dialing"
  /\ ~ctxDone[o]
  /\ ~listening
  /\ pc' = [pc EXCEPT ![o] = "select"]
  /\ nfail' = [nfail EXCEPT ![o] = IF @ < MaxFails THEN @ + 1 ELSE @]
  /\ UNCHANGED <<cancel, cancelNil, mu, id, addr, ctxDone, tick, result,
                 conn, listening, cancelCalled, baseDone>>

\* DialContext returns an error: its context is done.
DialAbort(o) ==
  /\ pc[o] = "dialing"
  /\ ctxDone[o]
  /\ pc' = [pc EXCEPT ![o] = "select"]
  /\ UNCHANGED <<cancel, cancelNil, mu, id, addr, ctxDone, tick, result,
                 conn, listening, cancelCalled, baseDone, nfail>>

\* The call's ticker runs: it was created (line 39) and the deferred
\* ticker.Stop() has not run, which it does when CheckLive returns, after
\* conn.Close() on the success path.
TickerRuns(o) == pc[o] \in {"select", "dialing", "connected"}

\* The call's ticker fires: one poll interval (100 ms) has passed.  The
\* ticker runs from its creation to the deferred ticker.Stop(), whatever the
\* call is doing; its channel holds one tick, and a tick that finds the
\* channel full is dropped.
Tick(o) ==
  /\ TickerRuns(o)
  /\ ~tick[o]
  /\ tick' = [tick EXCEPT ![o] = TRUE]
  /\ UNCHANGED <<cancel, cancelNil, mu, pc, id, addr, ctxDone, result, conn,
                 listening, cancelCalled, baseDone, nfail>>

\* A success path that returns without the done callback.
Success_SkipsDone(o) ==
  /\ pc[o] = "connected"
  /\ conn' = [conn EXCEPT ![o] = "closed"]
  /\ result' = [result EXCEPT ![o] = "nil"]
  /\ tick' = [tick EXCEPT ![o] = FALSE]
  /\ pc' = [pc EXCEPT ![o] = "returned"]
  /\ UNCHANGED <<cancel, cancelNil, mu, id, addr, ctxDone,
                 listening, cancelCalled, baseDone, nfail>>

\* err == nil: conn.Close(); return nil; the deferred ticker.Stop() runs.
Success(o) ==
  /\ pc[o] = "connected"
  /\ conn' = [conn EXCEPT ![o] = "closed"]
  /\ result' = [result EXCEPT ![o] = "nil"]
  /\ tick' = [tick EXCEPT ![o] = FALSE]
  /\ pc' = [pc EXCEPT ![o] = "defer"]
  /\ UNCHANGED <<cancel, cancelNil, mu, id, addr, ctxDone,
                 listening, cancelCalled, baseDone, nfail>>

\* The deferred cancel() of CheckLive, the cf of makeContext: pfn.mu.Lock()
DoneLock(o) ==
  /\ pc[o] = "defer"
  /\ mu = Free
  /\ mu' = OpHolder(o)
  /\ pc' = [pc EXCEPT ![o] = "cf"]
  /\ UNCHANGED <<cancel, cancelNil, id, addr, ctxDone, tick, result, conn,
                 listening, cancelCalled, baseDone, nfail>>

\* A cf that cancels the context and leaves the entry in the map.
DoneBody_NoDelete(o) ==
  /\ pc[o] = "cf"
  /\ mu = OpHolder(o)
  /\ ctxDone' = [ctxDone EXCEPT ![o] = TRUE]
  /\ mu' = Free
  /\ pc' = [pc EXCEPT ![o] = "returned"]
  /\ UNCHANGED <<cancel, cancelNil, id, addr, tick, result, conn, listening,
                 cancelCalled, baseDone, nfail>>

\* cf under the lock: cancel(); delete(pfn.cancel, id); the deferred Unlock;
\* CheckLive returns.
DoneBody(o) ==
  /\ pc[o] = "cf"
  /\ mu = OpHolder(o)
  /\ ctxDone' = [ctxDone EXCEPT ![o] = TRUE]
  /\ cancel' = Delete(cancel, id[o])
  /\ mu' = Free
  /\ pc' = [pc EXCEPT ![o] = "returned"]
  /\ UNCHANGED <<cancelNil, id, addr, tick, result, conn,
                 listening, cancelCalled, baseDone, nfail>>

(***************************************************************************)
(* Cancel.                                                                 *)
(***************************************************************************)

\* A Cancel that calls the cancel function and leaves it in the map.
Cancel_NoDelete(i) ==
  /\ mu = Free
  /\ LET h == Lookup(cancel, i)
     IN  IF h # Nil
           THEN ctxDone' = [ctxDone EXCEPT ![h] = TRUE]
           ELSE UNCHANGED ctxDone
  /\ cancelCalled' = [o \in Ops |-> cancelCalled[o] \/ (id[o] = i /\ Polling(o))]
  /\ UNCHANGED <<cancel, cancelNil, mu, pc, id, addr, tick, result, conn,
                 listening, baseDone, nfail>>

\* A Cancel whose map holds the wrapped cf instead of the context's cancel
\* function: calling it under the lock waits for pfn.mu, which Cancel holds,
\* for ever.
Cancel_Reenters(i) ==
  /\ mu = Free
  /\ IF Lookup(cancel, i) # Nil
       THEN mu' = <<"cancel", i>>
       ELSE UNCHANGED mu
  /\ cancelCalled' = [o \in Ops |-> cancelCalled[o] \/ (id[o] = i /\ Polling(o))]
  /\ UNCHANGED <<cancel, cancelNil, pc, id, addr, ctxDone, tick, result, conn,
                 listening, baseDone, nfail>>

\* A Cancel that deletes the cancel function without calling it.
Cancel_NoCancel(i) ==
  /\ mu = Free
  /\ cancel' = Delete(cancel, i)
  /\ cancelCalled' = [o \in Ops |-> cancelCalled[o] \/ (id[o] = i /\ Polling(o))]
  /\ UNCHANGED <<cancelNil, mu, pc, id, addr, ctxDone, tick, result, conn,
                 listening, baseDone, nfail>>

\* Cancel(i), from pfn.mu.Lock() to the deferred Unlock: look the cancel
\* function up, call and delete it when there is one.  Cancel waits for
\* nothing while it holds the lock, so the call is one step, taken when the
\* lock is free.
Cancel(i) ==
  /\ mu = Free
  /\ LET h == Lookup(cancel, i)
     IN  IF h # Nil
           THEN /\ ctxDone' = [ctxDone EXCEPT ![h] = TRUE]
                /\ cancel' = Delete(cancel, i)
           ELSE UNCHANGED <<ctxDone, cancel>>
  /\ cancelCalled' = [o \in Ops |-> cancelCalled[o] \/ (id[o] = i /\ Polling(o))]
  /\ UNCHANGED <<cancelNil, mu, pc, id, addr, tick, result, conn, listening,
                 baseDone, nfail>>

(***************************************************************************)
(* Environment.                                                            *)
(***************************************************************************)

\* A makeContext that derives the context from context.Background(): the end
\* of the base context does not reach the call.
CancelBase_Detached(o) ==
  /\ pc[o] \notin {"idle", "returned", "panicked"}
  /\ ~baseDone[o]
  /\ baseDone' = [baseDone EXCEPT ![o] = TRUE]
  /\ UNCHANGED <<cancel, cancelNil, mu, pc, id, addr, ctxDone, tick, result,
                 conn, listening, cancelCalled, nfail>>

\* The base context of the call is cancelled or expires at some point of
\* the call (Call covers a base context that is done before the call); the
\* context derived from it is done with it.
CancelBase(o) ==
  /\ pc[o] \notin {"idle", "returned", "panicked"}
  /\ ~baseDone[o]
  /\ ctxDone' = [ctxDone EXCEPT ![o] = TRUE]
  /\ baseDone' = [baseDone EXCEPT ![o] = TRUE]
  /\ UNCHANGED <<cancel, cancelNil, mu, pc, id, addr, tick, result, conn,
                 listening, cancelCalled, nfail>>

\* A listener is bound on the probed address.
Listen ==
  /\ ~listening
  /\ listening' = TRUE
  /\ UNCHANGED <<cancel, cancelNil, mu, pc, id, addr, ctxDone, tick, result,
                 conn, cancelCalled, baseDone, nfail>>

\* The listener goes away.
Unlisten ==
  /\ listening
  /\ listening' = FALSE
  /\ UNCHANGED <<cancel, cancelNil, mu, pc, id, addr, ctxDone, tick, result,
                 conn, cancelCalled, baseDone, nfail>>

OpStep(o) ==
  \/ MakeContextLock(o)
  \/ MakeContextBody(o)
  \/ Validate(o)
  \/ SelectDone(o)
  \/ SelectTick(o)
  \/ DialConnect(o)
  \/ DialFail(o)
  \/ DialAbort(o)
  \/ Success(o)
  \/ DoneLock(o)
  \/ DoneBody(o)

Next ==
  \/ \E o \in Ops, i \in Ids, a \in AddrIdx, d \in BOOLEAN : Call(o, i, a, d)
  \/ \E o \in Ops : OpStep(o)
  \/ \E o \in Ops : Tick(o)
  \/ \E i \in Ids : Cancel(i)
  \/ \E o \in Ops : CancelBase(o)
  \/ Listen
  \/ Unlisten

Spec == Init /\ [][Next]_vars

\* Scheduling: a call is one goroutine, which takes its next step whenever
\* it can (the Go scheduler is fair), and its ticker fires while it waits
\* for it.  A call waits for pfn.mu only while another call is inside
\* makeContext or cf, which every call passes through once, so weak
\* fairness covers the waiting for the lock too.  select chooses at random
\* among its ready cases, so a select that finds ctx.Done() ready again and
\* again takes that case in the end.
Fairness ==
  \A o \in Ops : WF_vars(OpStep(o) \/ Tick(o)) /\ SF_vars(SelectDone(o))

\* The addresses of the runs checked for liveness: the well-formed IPv4
\* address and a malformed one.
LiveAddrs == {1, 2}

LiveNext ==
  \/ \E o \in Ops, i \in Ids, a \in LiveAddrs, d \in BOOLEAN : Call(o, i, a, d)
  \/ \E o \in Ops : OpStep(o)
  \/ \E o \in Ops : Tick(o)
  \/ \E i \in Ids : Cancel(i)
  \/ \E o \in Ops : CancelBase(o)
  \/ Listen
  \/ Unlisten

FairSpec == Init /\ [][LiveNext]_vars /\ Fairness

(***************************************************************************)
(* Properties.                                                             *)
(***************************************************************************)

\* The addresses of Addrs that are malformed, and the error expected for
\* each address ("" for the well-formed one).
Malformed == {2, 3, 4}
ExpectedErr ==
  <<"", "invalid IP", "invalid port", "missing port in address", "">>

\* C1, as claimed: for every id at most one call that has registered and
\* not returned is in flight, a call already cancelled by Cancel(id) that
\* has not run its cleanup included.
C1_OneInFlightPerId ==
  \A i \in Ids : Cardinality({o \in Ops : id[o] = i /\ InFlight(o)}) <= 1

\* C1, amended: a call leaves makeContext registered only when the map
\* held no entry for its id, and then the entry is its own; when the map
\* holds an entry (of a call that has neither returned nor been cancelled
\* through Cancel(id)) the call ends in the duplicate-id fault.
C1_NoSilentDuplicate ==
  [][\A o \in Ops :
       (pc[o] = "register" /\ pc'[o] # "register") =>
         IF Lookup(cancel, id[o]) # Nil
           THEN pc'[o] = "panicked"
           ELSE pc'[o] = "validate" /\ Lookup(cancel', id[o]) = o]_vars

C1_Witness ==
  \E o, p \in Ops :
    /\ o # p /\ id[o] = id[p]
    /\ pc[p] = "panicked"
    /\ InFlight(o) /\ Lookup(cancel, id[o]) = o

\* C2: makeContext for an id that has an entry ends in the duplicate-id
\* fault with the map unchanged, no context cancelled and the lock free.
C2_DuplicateLeavesRegistry ==
  /\ [][\A o \in Ops :
          (pc[o] = "register" /\ Lookup(cancel, id[o]) # Nil
             /\ pc'[o] # "register") =>
            /\ pc'[o] = "panicked"
            /\ cancel' = cancel
            /\ ctxDone' = ctxDone
            /\ mu' = Free]_vars
  /\ [](\A o \in Ops : pc[o] = "panicked" => mu # OpHolder(o))

C2_Witness ==
  \E o, p \in Ops :
    /\ pc[p] = "panicked" /\ result[p] = "duplicate id"
    /\ id[o] = id[p] /\ Lookup(cancel, id[p]) = o
    /\ Polling(o) /\ ~ctxDone[o]
    /\ mu = Free

\* C3: Cancel(i) with no entry for i changes neither the map nor any
\* context nor any call; after any Cancel(i) the map has no entry for i, so
\* that a Cancel(i) repeated in a row is this no-op.
C3_CancelAbsentIsNoOp ==
  [][\A i \in Ids :
       Cancel(i) =>
         /\ Lookup(cancel', i) = Nil
         /\ Lookup(cancel, i) = Nil =>
              UNCHANGED <<cancel, cancelNil, mu, pc, ctxDone, tick, result,
                          conn>>]_vars

C3_Witness ==
  \E o \in Ops :
    /\ cancelCalled[o] /\ ctxDone[o] /\ Polling(o)
    /\ Lookup(cancel, id[o]) = Nil
    /\ ~cancelNil /\ mu = Free

\* C4, as claimed: a call for whose id Cancel was called while it was in
\* its polling loop eventually returns, with the cancelled outcome.
C4_CancelledWhilePollingReturns ==
  \A o \in Ops :
    cancelCalled[o] ~> (Returned(o) /\ result[o] = "canceled")

\* C5: when CheckLive returns, the map has no entry for its id and the lock
\* is free; no call that has returned is left in the map.
C5_ReturnedIdIsFree ==
  /\ [][\A o \in Ops :
          (pc[o] = "cf" /\ pc'[o] = "returned") =>
            Lookup(cancel', id[o]) = Nil /\ mu' = Free]_vars
  /\ [](\A o \in Ops : Returned(o) => Lookup(cancel, id[o]) # o)

C5_Witness ==
  \E o, p \in Ops :
    /\ o # p /\ id[o] = id[p]
    /\ Returned(o)
    /\ pc[p] = "validate" /\ Lookup(cancel, id[p]) = p

\* C6: a call with a malformed address never waits for a tick, never
\* dials, and returns the validation error of its address.
C6_MalformedFailsFast ==
  \A o \in Ops :
    (pc[o] # "idle" /\ addr[o] \in Malformed) =>
      /\ ~Polling(o) /\ pc[o] # "connected"
      /\ ~tick[o] /\ conn[o] = "none"
      /\ pc[o] \in {"defer", "cf", "returned"} =>
           result[o] = ExpectedErr[addr[o]]

C6_Witness ==
  \E o \in Ops :
    Returned(o) /\ addr[o] \in Malformed /\ result[o] = ExpectedErr[addr[o]]

\* C7: a polling call leaves its loop only by a dial that connects or with
\* its context done; with the address reachable it eventually returns
\* success unless the listener goes away or its context is ended; the
\* connection of the dial that connected is closed before the return.
C7_PollsUntilReachable ==
  /\ \A o \in Ops :
       (Polling(o) /\ listening) ~>
         ((Returned(o) /\ result[o] = "nil") \/ ~listening
            \/ (ctxDone[o] /\ result[o] # "nil"))
  /\ [][\A o \in Ops :
          (Polling(o) /\ ~Polling(o)') =>
            \/ /\ pc'[o] = "connected" /\ conn'[o] = "open"
               /\ listening /\ ~ctxDone[o]
            \/ /\ pc'[o] = "defer" /\ result'[o] = "canceled"
               /\ ctxDone[o]]_vars
  /\ [][\A o \in Ops :
          (pc[o] = "connected" /\ pc'[o] # "connected") =>
            pc'[o] = "defer" /\ result'[o] = "nil" /\ conn'[o] = "closed"]_vars
  /\ [](\A o \in Ops : conn[o] = "open" => pc[o] = "connected")

C7_Witness ==
  \E o \in Ops : Returned(o) /\ result[o] = "nil" /\ conn[o] = "closed"

\* C8: Cancel(i) and every step of a call with id i leave the entry, the
\* context and the position of every call with another id unchanged.
C8_DistinctIdsIndependent ==
  [][\A o, p \in Ops :
       (pc[o] # "idle" /\ pc[p] # "idle" /\ id[o] # id[p]
          /\ (OpStep(o) \/ Cancel(id[o]))) =>
         /\ Lookup(cancel', id[p]) = Lookup(cancel, id[p])
         /\ ctxDone'[p] = ctxDone[p]
         /\ pc'[p] = pc[p]]_vars

C8_Witness ==
  \E o, p \in Ops :
    /\ id[o] # id[p]
    /\ Returned(o) /\ result[o] = "canceled" /\ cancelCalled[o]
    /\ Polling(p) /\ ~ctxDone[p] /\ Lookup(cancel, id[p]) = p

\* C9: a call that returns has one of three outcomes: success, and then a
\* dial connected; cancelled, and then its context was done and no dial
\* connected; a validation error, and then its address is malformed and it
\* never dialled.
C9_Outcomes ==
  \A o \in Ops :
    pc[o] \in {"defer", "cf", "returned"} =>
      /\ result[o] \in {"nil", "canceled"} \cup {ExpectedErr[a] : a \in Malformed}
      /\ result[o] = "nil" => conn[o] = "closed" /\ addr[o] \notin Malformed
      /\ result[o] = "canceled" =>
           ctxDone[o] /\ conn[o] = "none" /\ addr[o] \notin Malformed
      /\ result[o] \notin {"nil", "canceled"} =>
           addr[o] \in Malformed /\ conn[o] = "none"

C9_Witness ==
  \E o, p \in Ops :
    /\ pc[o] = "defer" /\ result[o] = "canceled"
    /\ pc[p] = "defer" /\ result[p] = "nil"

\* C10, as claimed: the done callback of a call deletes the entry of its id
\* only if the entry still holds the cancel function the call installed; an
\* entry installed by a later call with the same id stays in the map.
C10_DoneKeepsLaterEntry ==
  [][\A o \in Ops :
       (pc[o] = "cf" /\ pc'[o] = "returned"
          /\ Lookup(cancel, id[o]) \notin {Nil, o}) =>
         Lookup(cancel', id[o]) = Lookup(cancel, id[o])]_vars

\* C11, as claimed: the entry of a call is removed by whichever of its done
\* callback and Cancel(id) runs first; the done callback of a call whose
\* entry is already gone, and a Cancel(i) that finds no entry, leave the map
\* and every context unchanged.
C11_SecondRemovalIsNoOp ==
  /\ [][\A o \in Ops :
          (pc[o] = "cf" /\ pc'[o] = "returned" /\ Lookup(cancel, id[o]) # o) =>
            cancel' = cancel /\ ctxDone' = ctxDone]_vars
  /\ [][\A i \in Ids :
          (Cancel(i) /\ Lookup(cancel, i) = Nil) =>
            cancel' = cancel /\ ctxDone' = ctxDone]_vars

\* C12: Cancel(i) with an entry for i, in one step under the lock, ends the
\* context of the call that installed the entry and removes the entry; the
\* handle is nowhere in the map afterwards, the lock is free, and no other
\* entry or context changes.
C12_CancelEndsScopeAndRemoves ==
  [][\A i \in Ids : \A h \in Ops :
       (Cancel(i) /\ Lookup(cancel, i) = h) =>
         /\ id[h] = i
         /\ ctxDone'[h]
         /\ Lookup(cancel', i) = Nil
         /\ \A j \in DOMAIN cancel' : cancel'[j] # h
         /\ mu' = Free
         /\ \A p \in Ops \ {h} : ctxDone'[p] = ctxDone[p]
         /\ \A j \in Ids \ {i} : Lookup(cancel', j) = Lookup(cancel, j)]_vars

C12_Witness ==
  \E o, p \in Ops :
    /\ Polling(o) /\ ctxDone[o] /\ ~baseDone[o]
    /\ Lookup(cancel, id[o]) = Nil
    /\ Polling(p) /\ ~ctxDone[p] /\ Lookup(cancel, id[p]) = p
    /\ mu = Free

\* C13: no interleaving blocks on pfn.mu for ever.  The lock is held by a
\* call inside makeContext or cf only, or is free; a call that holds it
\* releases it, on the duplicate-id path too; a call that waits for it gets
\* it and leaves makeContext or returns; Cancel starts and ends with the
\* lock free, and the cancel function it or cf calls takes no lock.
C13_NoDeadlockOnLock ==
  /\ \A o \in Ops :
       (pc[o] \in {"lock", "register", "defer", "cf"}) ~>
         (mu # OpHolder(o) /\ pc[o] \in {"validate", "panicked", "returned"})
  /\ [](mu \in {Free} \cup {OpHolder(o) : o \in Ops})
  /\ [][\A o \in Ops :
          (mu = OpHolder(o) /\ mu' # mu) =>
            mu' = Free /\ pc'[o] \in {"validate", "panicked", "returned"}]_vars
  /\ [][\A i \in Ids : Cancel(i) => mu = Free /\ mu' = Free]_vars

C13_Witness ==
  \E o, p \in Ops :
    /\ pc[o] = "panicked" /\ Returned(p) /\ id[o] = id[p]
    /\ cancelCalled[p] /\ result[p] = "canceled"
    /\ mu = Free

\* C14: a call that waits in select (for a tick or for ctx.Done()) or is
\* inside a dial, and a call anywhere else outside makeContext and cf, does
\* not hold pfn.mu; when the lock is held, the holder is inside makeContext
\* or cf.
C14_LockOnlyAroundMap ==
  /\ \A o \in Ops :
       pc[o] \notin {"register", "cf"} => mu # OpHolder(o)
  /\ mu # Free =>
       \E o \in Ops : mu = OpHolder(o) /\ pc[o] \in {"register", "cf"}

C14_Witness ==
  \E o, p \in Ops :
    /\ pc[o] = "dialing" /\ ~ctxDone[o]
    /\ pc[p] = "cf" /\ mu = OpHolder(p)

\* C15: a dial that fails leaves the call in its loop with no result; the
\* call leaves the loop only by a dial that connects (and then returns
\* success) or with its context done (and then returns "canceled"); a call
\* that has counted MaxFails failed dials, whose context is not done and
\* none of whose dials connected, is still polling.
C15_FailedDialNeverEnds ==
  /\ [][\A o \in Ops :
          (pc[o] = "dialing" /\ pc'[o] # "dialing") =>
            \/ pc'[o] = "connected" /\ listening /\ ~ctxDone[o]
            \/ pc'[o] = "select" /\ result'[o] = "none"]_vars
  /\ [][\A o \in Ops :
          nfail'[o] # nfail[o] =>
            pc[o] = "dialing" /\ pc'[o] = "select" /\ result'[o] = "none"]_vars
  /\ [](\A o \in Ops :
          (nfail[o] > 0 /\ pc[o] \in {"defer", "cf", "returned"}) =>
            \/ result[o] = "nil" /\ conn[o] = "closed"
            \/ result[o] = "canceled" /\ ctxDone[o])
  /\ [](\A o \in Ops :
          (nfail[o] = MaxFails /\ ~ctxDone[o] /\ conn[o] = "none") =>
            Polling(o))

C15_Witness ==
  \E o, p \in Ops :
    /\ nfail[o] = MaxFails /\ Polling(o) /\ ~ctxDone[o]
    /\ nfail[p] = MaxFails /\ Returned(p) /\ result[p] = "nil"

\* C16, as claimed: a polling call whose context is done starts no dial,
\* also when a tick waits in the ticker channel along with ctx.Done(), and
\* leaves its loop with the cancelled outcome only.
C16_NoDialAfterCancel ==
  /\ [][\A o \in Ops :
          ctxDone[o] => ~(pc[o] = "select" /\ pc'[o] = "dialing")]_vars
  /\ [][\A o \in Ops :
          (Polling(o) /\ ctxDone[o] /\ ~Polling(o)') =>
            pc'[o] = "defer" /\ result'[o] = "canceled"]_vars

\* C17: the context of a call is done when its base context is; a polling
\* call whose base context has ended eventually returns "canceled" with its
\* entry out of the map; the context of a polling call becomes done through
\* the end of its base context or Cancel(id) only, and while it is not done
\* the call leaves its loop only by a dial that connects.
C17_BaseScopeEndsProbe ==
  /\ [](\A o \in Ops : baseDone[o] => ctxDone[o])
  /\ \A o \in Ops :
       (baseDone[o] /\ Polling(o)) ~>
         (Returned(o) /\ result[o] = "canceled" /\ Lookup(cancel, id[o]) # o)
  /\ [][\A o \in Ops :
          (Polling(o) /\ ~ctxDone[o] /\ ctxDone'[o]) =>
            CancelBase(o) \/ Cancel(id[o])]_vars
  /\ [][\A o \in Ops :
          (Polling(o) /\ ~ctxDone[o]) =>
            Polling(o)' \/ (pc'[o] = "connected" /\ listening)]_vars

C17_Witness ==
  \E o, p \in Ops :
    /\ Returned(o) /\ baseDone[o] /\ ~cancelCalled[o]
    /\ result[o] = "canceled" /\ Lookup(cancel, id[o]) = Nil
    /\ Polling(p) /\ ~ctxDone[p] /\ nfail[p] = MaxFails

\* C18, as claimed: every call that has registered, has not returned and
\* whose context is not done has the entry of its id, holding its own cancel
\* function.
C18_RunningProbeHasEntry ==
  \A o \in Ops :
    (InFlight(o) /\ ~ctxDone[o]) => Lookup(cancel, id[o]) = o

\* C19: every entry of the map was installed, under its own id, by a call
\* that has not returned (nor ended in the duplicate-id fault).
C19_NoLeakedEntry ==
  \A i \in DOMAIN cancel :
    /\ cancel[i] \in Ops
    /\ id[cancel[i]] = i
    /\ InFlight(cancel[i])

C19_Witness ==
  \E o, p \in Ops :
    /\ o # p /\ id[o] = id[p]
    /\ Returned(o) /\ result[o] = "nil"
    /\ Polling(p) /\ DOMAIN cancel = {id[p]} /\ cancel[id[p]] = p

\* C20: CheckLive returns through its done callback only, whatever the
\* outcome, and once: a call returns by the step of cf, with a result
\* chosen, stays returned, and when it has returned its context is done.
C20_DoneOnEveryExit ==
  /\ [](\A o \in Ops : Returned(o) => ctxDone[o] /\ result[o] # "none")
  /\ [][\A o \in Ops :
          (pc'[o] = "returned" /\ pc[o] # "returned") =>
            pc[o] = "cf" /\ mu = OpHolder(o) /\ ctxDone'[o]]_vars
  /\ [][\A o \in Ops :
          (pc[o] \in {"validate", "select", "connected"}
             /\ pc'[o] \notin {"validate", "select", "dialing", "connected"}) =>
            pc'[o] = "defer" /\ result'[o] # "none"]_vars
  /\ [][\A o \in Ops : Returned(o) => Returned(o)']_vars

C20_Witness ==
  \E o, p \in Ops :
    /\ Returned(o) /\ result[o] = "nil" /\ ctxDone[o]
    /\ Returned(p) /\ addr[p] \in Malformed /\ ctxDone[p]
    /\ ~baseDone[o] /\ ~cancelCalled[o] /\ ~cancelCalled[p]

====
